---- MODULE Spec2Model ----
(***************************************************************************)
(* Model of the humafiber adapter (src/humafiber.go): the per-request      *)
(* wrapper (fiberWrapper), the value-bridge context (contextWrapper), the  *)
(* router adapter (fiberAdapter.Handle) and the test-harness bridge        *)
(* (fiberAdapter.ServeHTTP), together with the parts of the Fiber v3 /     *)
(* fasthttp / net/url behaviour that the adapter's calls rely on.          *)
(***************************************************************************)
EXTENDS Integers, Sequences, FiniteSets, TLC

VARIABLES
    phase,        \* "idle" | "pre" (middleware, before dispatch) | "handling" | "crashed"
    streaming,    \* orig.App().Server().StreamRequestBody
    locals,       \* native per-request store (fasthttp userData): sequence of [Key, Value]
    reqURI,       \* orig.Request().RequestURI(), a sequence of characters
    reqHeaders,   \* orig.Request().Header, sequence of <<name, value>>
    reqBody,      \* the request body bytes sent by the client
    nativeStatus, \* raw status field of the native response (0 = never set)
    respHeaders,  \* native response header: name -> sequence of comma-joined tokens
    wrapper,      \* the fiberWrapper built for the request in flight
    ret,          \* result of the last contract-method call made by the handler
    reader,       \* the io.Reader last handed out by BodyReader, with what it yielded
    streamPos,    \* read position of the engine's live body stream
    served,       \* number of requests completed on the pooled native object
    lateWrites,   \* number of store mutations made by the handler after dispatch
    routes,       \* engine routing table: sequence of [method, path, op]
    dispatched,   \* the last routed request and the ops whose handler ran for it
    pc,           \* position inside ServeHTTP
    resp,         \* result of a.tester.Test(r)
    hdrLeft,      \* names of resp.Header not yet visited by ServeHTTP's range loop
    wlog          \* writes performed on the http.ResponseWriter, in order

vars == <<phase, streaming, locals, reqURI, reqHeaders, reqBody, nativeStatus,
          respHeaders, wrapper, ret, reader, streamPos, served, lateWrites,
          routes, dispatched, pc, resp, hdrLeft, wlog>>

reqVars   == <<reqURI, reqHeaders, reqBody>>
bodyVars  == <<reader, streamPos>>
routeVars == <<routes, dispatched>>
serveVars == <<pc, resp, hdrLeft, wlog>>

----------------------------------------------------------------------------
(* Bounds *)
MaxRequests   == 2
MaxLateWrites == 2
MaxRoutes     == 3

(* Small input domains *)
Nil     == "nil"
Keys    == {"k1", "k2"}
Vals    == {"v1", "v2"}
Codes   == {0, 100, 200, 404, 599}
HeaderNames == {"X-Test", "X-Other"}
Tokens  == {"a", "b", "c"}
TheOp   == "op1"

----------------------------------------------------------------------------
(* fasthttp userData, reached through c.Locals(key, value...) *)

RECURSIVE LocalsGet(_, _)
LocalsGet(store, key) ==
    IF store = <<>> THEN Nil
    ELSE IF Head(store).Key = key THEN Head(store).Value
    ELSE LocalsGet(Tail(store), key)

LocalsSet(store, key, val) ==
    IF \E i \in DOMAIN store : store[i].Key = key
    THEN [i \in DOMAIN store |->
            IF store[i].Key = key THEN [Key |-> key, Value |-> val] ELSE store[i]]
    ELSE Append(store, [Key |-> key, Value |-> val])

LocalsRemove(store, key) ==
    IF \E i \in DOMAIN store : store[i].Key = key
    THEN LET i == CHOOSE j \in DOMAIN store : store[j].Key = key
             n == Len(store)
             swapped == [store EXCEPT ![i] = store[n]]
         IN  SubSeq(swapped, 1, n - 1)
    ELSE store

(* fasthttp Response.StatusCode(): an unset status reads as 200 *)
StatusOK == 200
NativeStatusCode == IF nativeStatus = 0 THEN StatusOK ELSE nativeStatus

----------------------------------------------------------------------------
(* contextWrapper *)

\* context.Background().Value(key) is nil for every key
BackgroundValue(key) == Nil

RECURSIVE ScanValues(_, _)
ScanValues(values, key) ==
    IF values = <<>> THEN Nil
    ELSE IF Head(values).Key = key THEN Head(values).Value
    ELSE ScanValues(Tail(values), key)

\* Variant: a miss falls through to the live native store.
Value_live(c, key) ==
    LET raw == IF c.Context = "Background" THEN BackgroundValue(key) ELSE Nil
    IN  IF raw # Nil THEN raw
        ELSE IF ScanValues(c.values, key) # Nil THEN ScanValues(c.values, key)
        ELSE LocalsGet(locals, key)

Value(c, key) ==
    LET raw == IF c.Context = "Background" THEN BackgroundValue(key) ELSE Nil
    IN  IF raw # Nil THEN raw ELSE ScanValues(c.values, key)

----------------------------------------------------------------------------
(* fiberAdapter.Handle: the closure registered with the router *)

\* Fiber v3 declares Locals(key any, value ...any) any.  The call
\* c.Locals(func(key, val any) {...}) therefore passes the closure as the
\* KEY of a lookup (one argument, no value); the store is only read and the
\* closure is invoked for no entry of it.
LocalsCallbackCalls(store) ==
    LET looked == LocalsGet(store, "visitorFn")
    IN  SubSeq(store, 1, 0)

\* values = append(values, &contextWrapperValue{Key: key, Value: val}) for
\* every invocation of the closure, in invocation order.
SnapshotValues(store) ==
    LET calls == LocalsCallbackCalls(store)
    IN  [i \in DOMAIN calls |-> [Key |-> calls[i].Key, Value |-> calls[i].Value]]

\* Variant: the cached status starts from what the native response reports.
NewWrapper_nativeStatus(op, store) ==
    [kind   |-> "fiberWrapper",
     op     |-> op,
     status |-> NativeStatusCode,
     orig   |-> "fiberCtx",
     ctx    |-> [values |-> SnapshotValues(store), Context |-> "Background"]]

NewWrapper(op, store) ==
    [kind   |-> "fiberWrapper",
     op     |-> op,
     status |-> 0,
     orig   |-> "fiberCtx",
     ctx    |-> [values |-> SnapshotValues(store), Context |-> "Background"]]

NoWrapper  == [kind |-> "none"]
ForeignCtx == [kind |-> "other"]
NoRet      == [call |-> "none"]
NoReader   == [kind |-> "none"]
NoResp     == [kind |-> "none"]
NoDispatch == [method |-> Nil, path |-> <<>>, ops |-> {}]
NoHeaders  == [n \in HeaderNames |-> <<>>]

Init ==
    /\ phase = "idle"
    /\ streaming \in BOOLEAN
    /\ locals = <<>>
    /\ reqURI = <<>>
    /\ reqHeaders = <<>>
    /\ reqBody = <<>>
    /\ nativeStatus = 0
    /\ respHeaders = NoHeaders
    /\ wrapper = NoWrapper
    /\ ret = NoRet
    /\ reader = NoReader
    /\ streamPos = 0
    /\ served = 0
    /\ lateWrites = 0
    /\ routes = <<>>
    /\ dispatched = NoDispatch
    /\ pc = "start"
    /\ resp = NoResp
    /\ hdrLeft = {}
    /\ wlog = <<>>

----------------------------------------------------------------------------
(* Request lifecycle on the pooled native request object *)

\* The engine accepts a request on a native object taken from its pool.
Arrive(uri, hdrs, body) ==
    /\ phase = "idle"
    /\ served < MaxRequests
    /\ phase' = "pre"
    /\ reqURI' = uri
    /\ reqHeaders' = hdrs
    /\ reqBody' = body
    /\ UNCHANGED <<streaming, locals, nativeStatus, respHeaders, wrapper, ret,
                   bodyVars, served, lateWrites, routeVars, serveVars>>

\* Middleware running before the route handler stores a local.
PreLocals(key, val) ==
    /\ phase = "pre"
    /\ locals' = LocalsSet(locals, key, val)
    /\ UNCHANGED <<phase, streaming, reqVars, nativeStatus, respHeaders, wrapper,
                   ret, bodyVars, served, lateWrites, routeVars, serveVars>>

\* The closure registered by Handle runs: snapshot, wrapper, handler(...).
Dispatch ==
    /\ phase = "pre"
    /\ phase' = "handling"
    /\ wrapper' = NewWrapper(TheOp, locals)
    /\ ret' = NoRet
    /\ reader' = NoReader
    /\ streamPos' = 0
    /\ lateWrites' = 0
    /\ UNCHANGED <<streaming, locals, reqVars, nativeStatus, respHeaders, served,
                   routeVars, serveVars>>

\* handler returns, the closure returns nil, the engine sends the response
\* and resets the native object before putting it back into the pool.
Return ==
    /\ phase = "handling"
    /\ phase' = "idle"
    /\ served' = served + 1
    /\ locals' = <<>>
    /\ nativeStatus' = 0
    /\ respHeaders' = NoHeaders
    /\ wrapper' = NoWrapper
    /\ ret' = NoRet
    /\ reader' = NoReader
    /\ streamPos' = 0
    /\ lateWrites' = 0
    /\ reqURI' = <<>>
    /\ reqHeaders' = <<>>
    /\ reqBody' = <<>>
    /\ UNCHANGED <<streaming, routeVars, serveVars>>

----------------------------------------------------------------------------
(* Calls the handler makes while the request is in flight *)

CallValue(key) ==
    /\ phase = "handling"
    /\ ret' = [call |-> "Value", key |-> key, val |-> Value(wrapper.ctx, key)]
    /\ UNCHANGED <<phase, streaming, locals, reqVars, nativeStatus, respHeaders,
                   wrapper, bodyVars, served, lateWrites, routeVars, serveVars>>

\* The handler (or code it calls) writes the native store through Unwrap(ctx).
HandlerLocals(key, val) ==
    /\ phase = "handling"
    /\ lateWrites < MaxLateWrites
    /\ locals' = LocalsSet(locals, key, val)
    /\ lateWrites' = lateWrites + 1
    /\ UNCHANGED <<phase, streaming, reqVars, nativeStatus, respHeaders, wrapper,
                   ret, bodyVars, served, routeVars, serveVars>>

HandlerLocalsRemove(key) ==
    /\ phase = "handling"
    /\ lateWrites < MaxLateWrites
    /\ \E i \in DOMAIN locals : locals[i].Key = key
    /\ locals' = LocalsRemove(locals, key)
    /\ lateWrites' = lateWrites + 1
    /\ UNCHANGED <<phase, streaming, reqVars, nativeStatus, respHeaders, wrapper,
                   ret, bodyVars, served, routeVars, serveVars>>

\* Variant: only the cached copy is updated.
SetStatus_cacheOnly(code) ==
    /\ phase = "handling"
    /\ wrapper' = [wrapper EXCEPT !.status = code]
    /\ UNCHANGED <<phase, streaming, locals, reqVars, nativeStatus, respHeaders,
                   ret, bodyVars, served, lateWrites, routeVars, serveVars>>

SetStatus(code) ==
    /\ phase = "handling"
    /\ wrapper' = [wrapper EXCEPT !.status = code]
    /\ nativeStatus' = code
    /\ UNCHANGED <<phase, streaming, locals, reqVars, respHeaders, ret, bodyVars,
                   served, lateWrites, routeVars, serveVars>>

Status(c) == c.status

CallStatus ==
    /\ phase = "handling"
    /\ ret' = [call |-> "Status", val |-> Status(wrapper)]
    /\ UNCHANGED <<phase, streaming, locals, reqVars, nativeStatus, respHeaders,
                   wrapper, bodyVars, served, lateWrites, routeVars, serveVars>>

\* Unwrap: the type assertion ctx.(*fiberWrapper), then c.orig, else panic.
\* Variant: a foreign context yields a quiet nil.
Unwrap_quietNil(ctx) ==
    IF ctx.kind = "fiberWrapper" THEN ctx.orig ELSE Nil

Unwrap(ctx) ==
    IF ctx.kind = "fiberWrapper" THEN ctx.orig ELSE "panic"

CallUnwrap(ctx) ==
    /\ phase = "handling"
    /\ ret' = [call |-> "Unwrap", arg |-> ctx.kind, val |-> Unwrap(ctx)]
    /\ phase' = IF Unwrap(ctx) = "panic" THEN "crashed" ELSE phase
    /\ UNCHANGED <<streaming, locals, reqVars, nativeStatus, respHeaders, wrapper,
                   bodyVars, served, lateWrites, routeVars, serveVars>>

NextCore ==
    \/ Arrive(<<>>, <<>>, <<>>)
    \/ \E k \in Keys, v \in Vals : PreLocals(k, v)
    \/ Dispatch
    \/ Return
    \/ \E k \in Keys : CallValue(k)
    \/ \E k \in Keys, v \in Vals : HandlerLocals(k, v)
    \/ \E k \in Keys : HandlerLocalsRemove(k)
    \/ \E code \in Codes : SetStatus(code)
    \/ CallStatus
    \/ CallUnwrap(wrapper)
    \/ CallUnwrap(ForeignCtx)

Spec == Init /\ [][NextCore]_vars

----------------------------------------------------------------------------
(* Properties of the request lifecycle *)

ValidStatus(code) == code >= 100 /\ code <= 599
ValueNow(key)     == Value(wrapper.ctx, key)
StatusNow         == Status(wrapper)
IsSetStatusStep   == \E code \in Codes : SetStatus(code)

\* C1: every pair that is in the native store when the route handler is
\* dispatched is returned by Value(key) on the wrapper's Context(), unless the
\* embedded context has a non-nil value for the key, which then wins.
C1_LocalsVisibleThroughContext ==
    [][Dispatch =>
         \A i \in DOMAIN locals :
            ValueNow(locals[i].Key)' =
               IF BackgroundValue(locals[i].Key) # Nil
               THEN BackgroundValue(locals[i].Key)
               ELSE locals[i].Value]_vars

\* C4: for a code in the valid HTTP range, right after SetStatus(code) both
\* Status() and the native response's status code are that code, and no other
\* call of the handler changes either of them.
C4_StatusRoundTrip ==
    [][/\ \A code \in Codes :
            (ValidStatus(code) /\ SetStatus(code)) =>
                (StatusNow' = code /\ NativeStatusCode' = code)
       /\ (phase = "handling" /\ phase' = "handling" /\ ~IsSetStatusStep) =>
                (StatusNow' = StatusNow /\ NativeStatusCode' = NativeStatusCode)]_vars

C4_Witness ==
    /\ phase = "handling"
    /\ ret.call = "Status"
    /\ ret.val = 404
    /\ StatusNow = 404
    /\ NativeStatusCode = 404

\* C5: Unwrap of a context built by the adapter returns the non-nil native
\* object the wrapper holds; Unwrap of any other context panics and never
\* returns nil.
C5_UnwrapOrPanic ==
    ret.call = "Unwrap" =>
        /\ ret.val # Nil
        /\ ret.arg = "fiberWrapper" =>
              (ret.val = wrapper.orig /\ ret.val = "fiberCtx" /\ phase = "handling")
        /\ ret.arg # "fiberWrapper" => (ret.val = "panic" /\ phase = "crashed")

C5_Witness ==
    /\ ret.call = "Unwrap"
    /\ ret.arg = "fiberWrapper"
    /\ ret.val = "fiberCtx"
    /\ phase = "handling"

\* C8: the list of pairs of the value-bridge context is fixed at dispatch;
\* no later change of the native store during the request changes the list
\* or the result of any Value(key) lookup.
C8_SnapshotFrozen ==
    [][(phase = "handling" /\ phase' = "handling") =>
          /\ wrapper'.ctx.values = wrapper.ctx.values
          /\ \A k \in Keys : ValueNow(k)' = ValueNow(k)]_vars

C8_Witness ==
    /\ phase = "handling"
    /\ lateWrites > 0
    /\ \E k \in Keys : LocalsGet(locals, k) # Nil /\ ret.call = "Value"
                       /\ ret.key = k /\ ret.val = ValueNow(k)

\* C10: every dispatch builds a new wrapper whose Status() is 0, whatever
\* the native response reports and whatever earlier requests set, and it stays
\* 0 until SetStatus is called on that wrapper.
C10_FreshStatusPerRequest ==
    [][/\ Dispatch => (StatusNow' = 0 /\ wrapper'.ctx.Context = "Background")
       /\ (phase = "handling" /\ phase' = "handling" /\ StatusNow = 0
             /\ ~IsSetStatusStep) => StatusNow' = 0]_vars

C10_Witness ==
    /\ served > 0
    /\ phase = "handling"
    /\ ret.call = "Status"
    /\ ret.val = 0
    /\ NativeStatusCode = StatusOK

----------------------------------------------------------------------------
(* Headers: AppendHeader / SetHeader act on the native RESPONSE header,     *)
(* EachHeader visits the native REQUEST header.                             *)

ReqHeaderSets ==
    { <<>>,
      << <<"X-Test", "a">> >>,
      << <<"X-Test", "b">>, <<"X-Other", "c">>, <<"X-Test", "a">> >> }

\* A response header value is kept as the sequence of its tokens; the string
\* on the wire is the tokens joined by ", ".  The four string tests of
\* fiber's Append read as follows on the token sequence h.
HeaderEquals(h, value)    == h = <<value>>
HeaderHasPrefix(h, value) == Len(h) >= 2 /\ h[1] = value
HeaderHasSuffix(h, value) == Len(h) >= 2 /\ h[Len(h)] = value
HeaderContains(h, value)  == \E i \in 2..(Len(h) - 1) : h[i] = value

\* orig.Set(name, h): the header holds exactly the string h afterwards
\* (h given as its token sequence; a plain value v is <<v>>).
FiberSet(hdrs, name, h) == [hdrs EXCEPT ![name] = h]

\* Variant: Append behaves as Set.
FiberAppend_replace(hdrs, name, value) == [hdrs EXCEPT ![name] = <<value>>]

\* orig.Append(name, value): h = Peek(name); an empty h becomes value; else
\* ", "+value is added unless value is already one of the listed values; the
\* header is written back only when h changed.
FiberAppend(hdrs, name, value) ==
    LET originalH == hdrs[name]
        h == IF Len(originalH) = 0 THEN <<value>>
             ELSE IF /\ ~HeaderEquals(originalH, value)
                     /\ ~HeaderHasPrefix(originalH, value)
                     /\ ~HeaderHasSuffix(originalH, value)
                     /\ ~HeaderContains(originalH, value)
                  THEN Append(originalH, value)
                  ELSE originalH
    IN  IF originalH # h THEN FiberSet(hdrs, name, h) ELSE hdrs

AppendHeader(name, value) ==
    /\ phase = "handling"
    /\ respHeaders' = FiberAppend(respHeaders, name, value)
    /\ ret' = [call |-> "AppendHeader", name |-> name, value |-> value]
    /\ UNCHANGED <<phase, streaming, locals, reqVars, nativeStatus, wrapper,
                   bodyVars, served, lateWrites, routeVars, serveVars>>

SetHeader(name, value) ==
    /\ phase = "handling"
    /\ respHeaders' = FiberSet(respHeaders, name, <<value>>)
    /\ ret' = [call |-> "SetHeader", name |-> name, value |-> value]
    /\ UNCHANGED <<phase, streaming, locals, reqVars, nativeStatus, wrapper,
                   bodyVars, served, lateWrites, routeVars, serveVars>>

\* The (name, value) pairs EachHeader passes to cb, in call order.
EachHeader == reqHeaders

CallEachHeader ==
    /\ phase = "handling"
    /\ ret' = [call |-> "EachHeader", val |-> EachHeader]
    /\ UNCHANGED <<phase, streaming, locals, reqVars, nativeStatus, respHeaders,
                   wrapper, bodyVars, served, lateWrites, routeVars, serveVars>>

NextHeaders ==
    \/ \E hdrs \in ReqHeaderSets : Arrive(<<>>, hdrs, <<>>)
    \/ Dispatch
    \/ Return
    \/ \E n \in HeaderNames, v \in Tokens : AppendHeader(n, v)
    \/ \E n \in HeaderNames, v \in Tokens : SetHeader(n, v)
    \/ CallEachHeader

SpecHeaders == Init /\ [][NextHeaders]_vars

RECURSIVE ValuesOf(_, _)
ValuesOf(pairs, name) ==
    IF pairs = <<>> THEN <<>>
    ELSE IF Head(pairs)[1] = name
         THEN <<Head(pairs)[2]>> \o ValuesOf(Tail(pairs), name)
         ELSE ValuesOf(Tail(pairs), name)

EachHeaderValues(name)     == ValuesOf(EachHeader, name)
ResponseHeaderValues(name) == respHeaders[name]
Listed(h, value)           == \E i \in DOMAIN h : h[i] = value

\* C2 as stated: each AppendHeader(name, v) adds v after the values that
\* EachHeader reports for name, and SetHeader(name, v) leaves EachHeader
\* reporting exactly v for name.
C2_AppendSeenByEachHeader ==
    [][\A n \in HeaderNames, v \in Tokens :
          /\ AppendHeader(n, v) =>
                EachHeaderValues(n)' = Append(EachHeaderValues(n), v)
          /\ SetHeader(n, v) => EachHeaderValues(n)' = <<v>>]_vars

\* C2 amended: AppendHeader(name, v) adds v at the end of the values listed in
\* the native response header name unless v is already listed there (then the
\* header is unchanged); SetHeader(name, v) leaves exactly v; other names are
\* untouched, and EachHeader, which lists the request header, is unaffected.
C2_ResponseHeaderAccumulates ==
    [][\A n \in HeaderNames, v \in Tokens :
          /\ AppendHeader(n, v) =>
                /\ ResponseHeaderValues(n)' =
                      IF Listed(ResponseHeaderValues(n), v)
                      THEN ResponseHeaderValues(n)
                      ELSE Append(ResponseHeaderValues(n), v)
                /\ \A m \in HeaderNames \ {n} :
                      ResponseHeaderValues(m)' = ResponseHeaderValues(m)
                /\ EachHeader' = EachHeader
          /\ SetHeader(n, v) =>
                /\ ResponseHeaderValues(n)' = <<v>>
                /\ \A m \in HeaderNames \ {n} :
                      ResponseHeaderValues(m)' = ResponseHeaderValues(m)
                /\ EachHeader' = EachHeader]_vars

C2_Witness ==
    /\ phase = "handling"
    /\ ResponseHeaderValues("X-Test") = <<"c", "b", "a">>
    /\ ret.call = "AppendHeader"
    /\ ret.value = "b"
    /\ EachHeaderValues("X-Test") = <<"b", "a">>

----------------------------------------------------------------------------
(* URL(): url.Parse of the raw request-URI, then *u                         *)

HexDigits == {"a", "2"}
URIs ==
    { <<"/">>,
      <<"/", "a">>,
      <<"/", "%", "2", "a">>,
      <<"/", "%", "z", "z">>,
      <<"/", "a", "%">>,
      <<"/", "%", "2">> }

\* net/url rejects a "%" that is not followed by two hexadecimal digits.
BadEscapeAt(raw, i) ==
    /\ raw[i] = "%"
    /\ \/ i + 2 > Len(raw)
       \/ raw[i + 1] \notin HexDigits
       \/ raw[i + 2] \notin HexDigits

HasBadEscape(raw) == \E i \in DOMAIN raw : BadEscapeAt(raw, i)

\* Path of the parsed URL: every %XY triple is decoded to one character.
RECURSIVE Unescape(_)
Unescape(raw) ==
    IF raw = <<>> THEN <<>>
    ELSE IF Head(raw) = "%"
         THEN <<"0x" \o raw[2] \o raw[3]>> \o Unescape(SubSeq(raw, 4, Len(raw)))
         ELSE <<Head(raw)>> \o Unescape(Tail(raw))

NilURL == [nil |-> TRUE]

\* url.Parse returns (nil, err) on failure and (u, nil) on success.
UrlParse(raw) ==
    IF HasBadEscape(raw)
    THEN [u |-> NilURL, err |-> "invalid URL escape"]
    ELSE [u |-> [Path |-> Unescape(raw), RawPath |-> raw], err |-> Nil]

ZeroURL == [Path |-> <<>>, RawPath |-> <<>>]
Panic   == [panic |-> "nil pointer dereference"]

\* u, _ := url.Parse(...); return *u  -- *u on a nil u is a nil-pointer
\* dereference, a runtime panic.
URL(raw) ==
    LET u == UrlParse(raw).u
    IN  IF u = NilURL THEN Panic ELSE u

CallURL ==
    /\ phase = "handling"
    /\ ret' = [call |-> "URL", arg |-> reqURI, val |-> URL(reqURI)]
    /\ phase' = IF URL(reqURI) = Panic THEN "crashed" ELSE phase
    /\ UNCHANGED <<streaming, locals, reqVars, nativeStatus, respHeaders, wrapper,
                   bodyVars, served, lateWrites, routeVars, serveVars>>

----------------------------------------------------------------------------
(* BodyReader() and reading from what it returns                            *)

Bodies     == { <<>>, <<"x">>, <<"x", "y", "z">> }
ChunkSizes == {1, 2}
Min(a, b)  == IF a < b THEN a ELSE b

\* orig.BodyRaw() when the engine has buffered the body
BodyRaw == reqBody

\* Variant: the streaming flag is tested the wrong way round.
BodyReader_inverted ==
    IF ~streaming
    THEN [kind |-> "stream", src |-> "BodyStream", got |-> <<>>, eof |-> FALSE]
    ELSE [kind |-> "bytes", data |-> BodyRaw, pos |-> 0, got |-> <<>>, eof |-> FALSE]

\* The reader returned: the engine's stream object itself, or a new
\* bytes.Reader positioned at 0 over the buffered bytes.  got/eof record what
\* reads on the returned reader have yielded.
BodyReader ==
    IF streaming
    THEN [kind |-> "stream", src |-> "BodyStream", got |-> <<>>, eof |-> FALSE]
    ELSE [kind |-> "bytes", data |-> BodyRaw, pos |-> 0, got |-> <<>>, eof |-> FALSE]

CallBodyReader ==
    /\ phase = "handling"
    /\ reader' = BodyReader
    /\ ret' = [call |-> "BodyReader", val |-> BodyReader.kind]
    /\ UNCHANGED <<phase, streaming, locals, reqVars, nativeStatus, respHeaders,
                   wrapper, streamPos, served, lateWrites, routeVars, serveVars>>

\* One Read(p) with len(p) = n on the reader handed out last.
Read(n) ==
    /\ phase = "handling"
    /\ reader.kind \in {"bytes", "stream"}
    /\ IF reader.kind = "bytes"
       THEN /\ reader' =
                 IF reader.pos >= Len(reader.data)
                 THEN [reader EXCEPT !.eof = TRUE]
                 ELSE LET m == Min(n, Len(reader.data) - reader.pos)
                      IN  [reader EXCEPT
                             !.got = @ \o SubSeq(reader.data, reader.pos + 1,
                                                 reader.pos + m),
                             !.pos = @ + m]
            /\ UNCHANGED streamPos
       ELSE IF streamPos >= Len(reqBody)
            THEN /\ reader' = [reader EXCEPT !.eof = TRUE]
                 /\ UNCHANGED streamPos
            ELSE LET m == Min(n, Len(reqBody) - streamPos)
                 IN  /\ reader' = [reader EXCEPT
                            !.got = @ \o SubSeq(reqBody, streamPos + 1, streamPos + m)]
                     /\ streamPos' = streamPos + m
    /\ ret' = [call |-> "Read", n |-> n]
    /\ UNCHANGED <<phase, streaming, locals, reqVars, nativeStatus, respHeaders,
                   wrapper, served, lateWrites, routeVars, serveVars>>

NextBody ==
    \/ \E uri \in URIs, body \in Bodies : Arrive(uri, <<>>, body)
    \/ Dispatch
    \/ Return
    \/ CallURL
    \/ CallBodyReader
    \/ \E n \in ChunkSizes : Read(n)

SpecBody == Init /\ [][NextBody]_vars

IsPrefix(a, b) == Len(a) <= Len(b) /\ a = SubSeq(b, 1, Len(a))

\* C6: URL() on a request-URI that does not parse returns the zero URL and
\* raises no fault.
C6_URLFailsSoft ==
    (ret.call = "URL" /\ UrlParse(ret.arg).err # Nil) =>
        (ret.val = ZeroURL /\ phase # "crashed")

\* C9: the kind of reader BodyReader returns is decided by the streaming
\* setting alone: the live stream itself when it is on, otherwise a reader
\* over exactly the buffered raw bytes, which yields them once, in order, and
\* then reports end of input.
C9_BodyReaderByStreamingFlag ==
    reader.kind # "none" =>
        /\ streaming => (reader.kind = "stream" /\ reader.src = "BodyStream")
        /\ ~streaming =>
              /\ reader.kind = "bytes"
              /\ reader.data = reqBody
              /\ IsPrefix(reader.got, reqBody)
              /\ reader.eof => reader.got = reqBody

C9_Witness ==
    /\ ~streaming
    /\ reader.kind = "bytes"
    /\ reader.eof
    /\ reader.got = <<"x", "y", "z">>
    /\ ret.call = "Read"

----------------------------------------------------------------------------
(* fiberAdapter.Handle: route registration, and the engine's routing        *)

Methods == {"GET", "POST"}
Templates ==
    { <<"/", "u", "/", "{", "i", "}">>,      \* /u/{i}
      <<"/", "u", "/", "m">>,                \* /u/m
      <<"/", "{", "i", "}">>,                \* /{i}
      <<"/", "u", "}">> }                    \* /u}  (a stray closing brace)
Ops == [Method : Methods, Path : Templates]
RequestPaths ==
    { <<"/", "u", "/", "4">>, <<"/", "u", "/", "m">>, <<"/", "u">>, <<"/", "4">> }

\* strings.ReplaceAll(s, old, new) for a one-character old
RECURSIVE ReplaceAll(_, _, _)
ReplaceAll(s, old, new) ==
    IF s = <<>> THEN <<>>
    ELSE (IF Head(s) = old THEN new ELSE <<Head(s)>>) \o ReplaceAll(Tail(s), old, new)

\* Variant: the closing brace is left in place.
RewritePath_keepClose(path) == ReplaceAll(path, "{", <<":">>)

RewritePath(path) ==
    ReplaceAll(ReplaceAll(path, "{", <<":">>), "}", <<>>)

\* a.router.Add([]string{op.Method}, path, closure)
Handle(op) ==
    /\ Len(routes) < MaxRoutes
    /\ \A i \in DOMAIN routes : routes[i].op # op
    /\ routes' = Append(routes, [method |-> op.Method,
                                 path   |-> RewritePath(op.Path),
                                 op     |-> op])
    /\ dispatched' = NoDispatch
    /\ UNCHANGED <<phase, streaming, locals, reqVars, nativeStatus, respHeaders,
                   wrapper, ret, bodyVars, served, lateWrites, serveVars>>

\* The engine's matching of a request path against a registered path:
\* both are cut at "/", a segment ":name" accepts any non-empty segment, any
\* other segment accepts only itself.
RECURSIVE SplitPath(_)
SplitPath(s) ==
    IF s = <<>> THEN <<>>
    ELSE LET rest == Tail(s)
             cuts == {i \in DOMAIN rest : rest[i] = "/"}
             k    == IF cuts = {} THEN Len(rest)
                     ELSE (CHOOSE i \in cuts : \A j \in cuts : i <= j) - 1
         IN  <<SubSeq(rest, 1, k)>> \o SplitPath(SubSeq(rest, k + 1, Len(rest)))

SegmentMatches(pat, seg) ==
    IF Len(pat) >= 2 /\ pat[1] = ":" THEN Len(seg) >= 1 ELSE pat = seg

RouteMatches(route, method, path) ==
    LET pats == SplitPath(route.path)
        segs == SplitPath(path)
    IN  /\ route.method = method
        /\ Len(pats) = Len(segs)
        /\ \A i \in DOMAIN pats : SegmentMatches(pats[i], segs[i])

\* The engine runs the first matching route in registration order; the
\* closure returns nil without calling c.Next(), so no later route runs.
Route(method, path) ==
    /\ routes # <<>>
    /\ LET hits == {i \in DOMAIN routes : RouteMatches(routes[i], method, path)}
       IN  dispatched' =
             [method |-> method, path |-> path,
              ops |-> IF hits = {} THEN {}
                      ELSE {routes[CHOOSE i \in hits : \A j \in hits : i <= j].op}]
    /\ UNCHANGED <<phase, streaming, locals, reqVars, nativeStatus, respHeaders,
                   wrapper, ret, bodyVars, served, lateWrites, routes, serveVars>>

NextRoute ==
    \/ \E op \in Ops : Handle(op)
    \/ \E m \in Methods, path \in RequestPaths : Route(m, path)

SpecRoute == Init /\ [][NextRoute]_vars

\* The rewrite as C3 words it: each {name} group becomes :name, every other
\* character is kept.
NameChar(ch) == ch \notin {"{", "}", "/"}
RECURSIVE RewriteNamedSegments(_)
RewriteNamedSegments(s) ==
    IF s = <<>> THEN <<>>
    ELSE LET closes == {j \in 3..Len(s) :
                          /\ s[j] = "}"
                          /\ \A k \in 2..(j - 1) : NameChar(s[k])}
         IN  IF Head(s) = "{" /\ closes # {}
             THEN LET j == CHOOSE c \in closes : TRUE
                  IN  <<":">> \o SubSeq(s, 2, j - 1)
                       \o RewriteNamedSegments(SubSeq(s, j + 1, Len(s)))
             ELSE <<Head(s)>> \o RewriteNamedSegments(Tail(s))

\* Every "{" replaced by ":" and every "}" dropped, written without recursion.
BracesStripped(s) ==
    LET kept == SelectSeq(s, LAMBDA ch : ch # "}")
    IN  [i \in DOMAIN kept |-> IF kept[i] = "{" THEN ":" ELSE kept[i]]

RoutesOf(op)   == {i \in DOMAIN routes : routes[i].op = op}
Routed         == dispatched.method # Nil
HitsNow        == {i \in DOMAIN routes :
                      RouteMatches(routes[i], dispatched.method, dispatched.path)}

\* C3 as stated: each registered Operation has exactly one route, under its
\* method, whose path is the template with every {name} rewritten to :name and
\* nothing else changed; a request matching that route is dispatched to that
\* Operation's handler and to no other.
C3_RouteRoundTrip ==
    \A i \in DOMAIN routes :
        /\ Cardinality(RoutesOf(routes[i].op)) = 1
        /\ routes[i].method = routes[i].op.Method
        /\ routes[i].path = RewriteNamedSegments(routes[i].op.Path)
        /\ (Routed /\ RouteMatches(routes[i], dispatched.method, dispatched.path))
              => dispatched.ops = {routes[i].op}

\* C3 amended: the route's path is the template with every "{" replaced by
\* ":" and every "}" removed (the {name} -> :name rewrite whenever the two
\* agree on the template); a request is dispatched to the handler of the
\* first-registered route that matches its method and path, hence to this
\* Operation's handler when no earlier route matches, and to no other handler.
C3_RouteFirstMatch ==
    /\ \A i \in DOMAIN routes :
        /\ Cardinality(RoutesOf(routes[i].op)) = 1
        /\ routes[i].method = routes[i].op.Method
        /\ routes[i].path = BracesStripped(routes[i].op.Path)
        /\ (Routed /\ i \in HitsNow /\ \A j \in HitsNow : i <= j)
              => dispatched.ops = {routes[i].op}
    /\ Routed => (Cardinality(dispatched.ops) <= 1
                  /\ (HitsNow = {} <=> dispatched.ops = {}))

C3_Witness ==
    /\ Len(routes) >= 2
    /\ routes[1].op = [Method |-> "GET", Path |-> <<"/", "u", "/", "{", "i", "}">>]
    /\ routes[1].path = <<"/", "u", "/", ":", "i">>
    /\ routes[2].op = [Method |-> "GET", Path |-> <<"/", "u", "/", "m">>]
    /\ dispatched.method = "GET"
    /\ dispatched.path = <<"/", "u", "/", "m">>
    /\ dispatched.ops = {routes[1].op}

----------------------------------------------------------------------------
(* fiberAdapter.ServeHTTP                                                   *)

RespHeaderMaps ==
    { <<>>,
      [n \in {"X-Test"} |-> <<"a", "b">>],
      [n \in {"X-Test", "X-Other"} |-> IF n = "X-Test" THEN <<"a", "b">> ELSE <<"c">>],
      [n \in {"X-Test", "X-Other"} |-> IF n = "X-Test" THEN <<"b">> ELSE <<"c", "a">>] }

\* What a.tester.Test(r) can return: a response, or a non-nil error.
TestResults ==
    [kind : {"resp"}, StatusCode : {200, 404}, Header : RespHeaderMaps,
     Body : {<<>>, <<"x", "y">>}]
    \cup {[kind |-> "error"]}

\* resp, err := a.tester.Test(r); if err != nil { panic(err) }
ServeTest ==
    /\ pc = "start"
    /\ \E r \in TestResults :
          /\ resp' = r
          /\ IF r.kind = "error"
             THEN pc' = "panicked" /\ hdrLeft' = {}
             ELSE pc' = "headers" /\ hdrLeft' = DOMAIN r.Header
    /\ wlog' = <<>>
    /\ UNCHANGED <<phase, streaming, locals, reqVars, nativeStatus, respHeaders,
                   wrapper, ret, bodyVars, served, lateWrites, routeVars>>

\* The h.Add calls of one iteration of the outer loop, for name k
HeaderAdds(k, v) == [i \in DOMAIN v |-> [op |-> "add", name |-> k, value |-> v[i]]]

\* One iteration of `for k, v := range resp.Header` (map order is not fixed)
ServeCopyHeader ==
    /\ pc = "headers"
    /\ \E k \in hdrLeft :
          /\ wlog' = wlog \o HeaderAdds(k, resp.Header[k])
          /\ hdrLeft' = hdrLeft \ {k}
    /\ UNCHANGED <<phase, streaming, locals, reqVars, nativeStatus, respHeaders,
                   wrapper, ret, bodyVars, served, lateWrites, routeVars, pc, resp>>

\* Variant: the status is written without waiting for the header loop.
ServeWriteHeader_early ==
    /\ pc = "headers"
    /\ wlog' = Append(wlog, [op |-> "status", code |-> resp.StatusCode])
    /\ pc' = IF hdrLeft = {} THEN "body" ELSE "headers"
    /\ UNCHANGED <<phase, streaming, locals, reqVars, nativeStatus, respHeaders,
                   wrapper, ret, bodyVars, served, lateWrites, routeVars, resp,
                   hdrLeft>>

\* w.WriteHeader(resp.StatusCode), once the loop is over
ServeWriteHeader ==
    /\ pc = "headers"
    /\ hdrLeft = {}
    /\ wlog' = Append(wlog, [op |-> "status", code |-> resp.StatusCode])
    /\ pc' = "body"
    /\ UNCHANGED <<phase, streaming, locals, reqVars, nativeStatus, respHeaders,
                   wrapper, ret, bodyVars, served, lateWrites, routeVars, resp,
                   hdrLeft>>

\* io.Copy(w, resp.Body): the body bytes are written (nothing for an empty body)
ServeCopyBody ==
    /\ pc = "body"
    /\ wlog' = IF resp.Body = <<>> THEN wlog
               ELSE Append(wlog, [op |-> "body", data |-> resp.Body])
    /\ pc' = "done"
    /\ UNCHANGED <<phase, streaming, locals, reqVars, nativeStatus, respHeaders,
                   wrapper, ret, bodyVars, served, lateWrites, routeVars, resp,
                   hdrLeft>>

\* The next call of ServeHTTP, with its own response writer
ServeNext ==
    /\ pc \in {"done", "panicked"}
    /\ pc' = "start"
    /\ resp' = NoResp
    /\ wlog' = <<>>
    /\ hdrLeft' = {}
    /\ UNCHANGED <<phase, streaming, locals, reqVars, nativeStatus, respHeaders,
                   wrapper, ret, bodyVars, served, lateWrites, routeVars>>

NextServe ==
    \/ ServeTest
    \/ ServeCopyHeader
    \/ ServeWriteHeader
    \/ ServeCopyBody
    \/ ServeNext

SpecServe == Init /\ [][NextServe]_vars

OpsAt(kind)   == {i \in DOMAIN wlog : wlog[i].op = kind}
AddedFor(name) ==
    LET adds == SelectSeq(wlog, LAMBDA e : e.op = "add" /\ e.name = name)
    IN  [i \in DOMAIN adds |-> adds[i].value]

\* C7: on success the writes on the response writer are: every header value
\* (per name, in the original order), then the status code exactly once, then
\* the body, with no header added after the status; on an error from the
\* in-process execution ServeHTTP panics and writes neither status nor body.
C7_ServeWriteOrder ==
    /\ \A i \in OpsAt("add"), j \in OpsAt("status") : i < j
    /\ \A i \in OpsAt("status"), j \in OpsAt("body") : i < j
    /\ Cardinality(OpsAt("status")) <= 1
    /\ pc \in {"body", "done"} =>
          /\ Cardinality(OpsAt("status")) = 1
          /\ \A i \in OpsAt("status") : wlog[i].code = resp.StatusCode
          /\ \A n \in HeaderNames :
                AddedFor(n) = IF n \in DOMAIN resp.Header THEN resp.Header[n] ELSE <<>>
    /\ pc = "done" =>
          IF resp.Body = <<>> THEN OpsAt("body") = {}
          ELSE /\ Cardinality(OpsAt("body")) = 1
               /\ \A i \in OpsAt("body") : wlog[i].data = resp.Body
    /\ resp.kind = "error" =>
          (pc = "panicked" /\ OpsAt("status") = {} /\ OpsAt("body") = {})

C7_Witness ==
    /\ pc = "done"
    /\ resp.kind = "resp"
    /\ DOMAIN resp.Header = {"X-Test", "X-Other"}
    /\ Len(wlog) = 5
    /\ wlog[1].name = "X-Other"
    /\ wlog[4].op = "status"
    /\ wlog[5].op = "body"

====
